---------------------------- MODULE Spec2Model ----------------------------
(***************************************************************************)
(* The flight rig of src/src/components/three/Scene.tsx (component         *)
(* Experience, lines 322-617): the useFrame callback that follows the      *)
(* sampled flight path under a scroll offset.                              *)
(*                                                                         *)
(* Numbers.  JavaScript numbers are modelled as fixed-point integers with  *)
(* three decimals: the integer v stands for v / SCALE.  Products and       *)
(* quotients are rounded to the nearest unit.  Math.sqrt and Math.acos are *)
(* computed to that resolution (ISqrt, Acos).                              *)
(***************************************************************************)
EXTENDS Integers, Sequences, FiniteSets, TLC

SCALE == 10 ^ 3

(***************************************************************************)
(* Bounds of the model.                                                    *)
(***************************************************************************)
\* ANIMATION_CONFIG.NO_OF_POINTS is 1200 in the source; the model samples
\* the curve with this many divisions.
NO_OF_POINTS == 6
\* Frame-callback invocations explored under Spec.
MaxFrames == 3
\* Frame-callback invocations explored under SpecSteady.
MaxSteadyFrames == 12
\* Frame-callback invocations explored under SpecDebug: more than one
\* DEBUG.LOG_INTERVAL.
MaxDebugFrames == 61
\* Frame-callback invocations explored under SpecRaw.
MaxRawFrames == 2
\* Frame-callback invocations and re-renders explored under SpecEvents.
MaxEventFrames == 2
MaxRenders == 1

(***************************************************************************)
(* sceneConfig.ts                                                          *)
(***************************************************************************)
SCROLL_SMOOTHING == 1
MOVEMENT_SMOOTHING == 3
CAMERA_HEIGHT == 1500
CAMERA_DISTANCE == 8000
MAX_BANK_ANGLE == 800
BANK_LERP == 10
PITCH_LERP == 100
YAW_LERP == 100
ROTATION_LERP == 100
LOOK_AHEAD == 5
POSITION_LERP == 100
MAX_PITCH_ANGLE == 400
ELEVATION_INFLUENCE == 800
\* DEBUG.LOG_INTERVAL
LOG_INTERVAL == 60
\* The literal factors of Scene.tsx lines 484 and 505.
BANK_GAIN == 5
YAW_GAIN == 500

(***************************************************************************)
(* Arithmetic                                                              *)
(***************************************************************************)
Min(a, b) == IF a < b THEN a ELSE b
Max(a, b) == IF a > b THEN a ELSE b
Abs(a) == IF a < 0 THEN -a ELSE a
Sign(a) == IF a > 0 THEN 1 ELSE IF a < 0 THEN -1 ELSE 0

\* n / d rounded to the nearest integer (d > 0).
RDiv(n, d) == (2 * n + d) \div (2 * d)
\* The fixed-point product and quotient.
FMul(a, b) == RDiv(a * b, SCALE)
FDiv(a, b) == RDiv(a * SCALE, b)

\* The number NaN: an integer no computation of the model comes near.  What
\* is computed from NaN is NaN, and NaN is no index of an array.
NaN == -(2 ^ 30)
IsNaN(v) == v = NaN

\* Math.floor of a fixed-point number, as an integer.
Floor(v) == v \div SCALE
\* v % 1 of JavaScript: the remainder has the sign of the dividend.
Mod1(v) == IF v >= 0 THEN v % SCALE ELSE -((-v) % SCALE)

RECURSIVE SqrtSearch(_, _, _)
SqrtSearch(n, lo, hi) ==
    IF hi - lo <= 1 THEN lo
    ELSE LET mid == (lo + hi) \div 2
         IN  IF mid * mid <= n THEN SqrtSearch(n, mid, hi)
             ELSE SqrtSearch(n, lo, mid)
\* The integer square root, rounded to the nearest integer.
RoundRoot(n, r) == IF n - r * r > r THEN r + 1 ELSE r
ISqrt(n) == RoundRoot(n, SqrtSearch(n, 0, 46340))
\* Math.sqrt of a fixed-point number.
Sqrt(v) == ISqrt(v * SCALE)

PI == 3142
\* Math.acos on [-1, 1]: sqrt(1 - x) * (a0 + a1 x + a2 x^2 + a3 x^3) for
\* x >= 0 and pi - acos(-x) below; exact at 1 and at -1.
AcosPos(x) ==
    FMul(Sqrt(SCALE - x),
         1571 + FMul(x, -212 + FMul(x, 74 + FMul(x, -19))))
Acos(x) == IF x >= 0 THEN AcosPos(x) ELSE PI - AcosPos(-x)

\* Math.sin and Math.cos: the angle is brought into [-pi, pi), folded into
\* [-pi/2, pi/2] and the Taylor series is summed there.
TWO_PI == 6283
HALF_PI == 1571
WrapAngle(a) == ((a + PI) % TWO_PI) - PI
\* sin(x) / x as a series in x^2.
SincTerms(x2) ==
    SCALE - RDiv(FMul(x2, SCALE - RDiv(FMul(x2, SCALE - RDiv(x2, 42)), 20)), 6)
Sinc(x) == SincTerms(FMul(x, x))
SinSeries(x) == FMul(x, Sinc(x))
CosTerms(x2) ==
    SCALE - RDiv(FMul(x2,
        SCALE - RDiv(FMul(x2,
            SCALE - RDiv(FMul(x2, SCALE - RDiv(x2, 56)), 30)), 12)), 2)
CosSeries(x) == CosTerms(FMul(x, x))
SinWrapped(r) ==
    IF r > HALF_PI THEN SinSeries(PI - r)
    ELSE IF r < -HALF_PI THEN SinSeries(-PI - r)
    ELSE SinSeries(r)
Sin(a) == SinWrapped(WrapAngle(a))
CosWrapped(r) ==
    IF r > HALF_PI THEN -CosSeries(PI - r)
    ELSE IF r < -HALF_PI THEN -CosSeries(-PI - r)
    ELSE CosSeries(r)
Cos(a) == CosWrapped(WrapAngle(a))

\* THREE.MathUtils.lerp(x, y, t) = (1 - t) * x + t * y.  The quotient by
\* SCALE is taken on the split operands so that no product leaves 32 bits.
Lerp(x, y, t) ==
    LET a  == SCALE - t
        qx == x \div SCALE
        rx == x % SCALE
        qy == y \div SCALE
        ry == y % SCALE
    IN  a * qx + t * qy + RDiv(a * rx + t * ry, SCALE)

(***************************************************************************)
(* THREE.Vector3                                                           *)
(***************************************************************************)
Vec(x, y, z) == [x |-> x, y |-> y, z |-> z]
VSub(a, b) == Vec(a.x - b.x, a.y - b.y, a.z - b.z)
VAdd(a, b) == Vec(a.x + b.x, a.y + b.y, a.z + b.z)
VDot(a, b) == RDiv(a.x * b.x + a.y * b.y + a.z * b.z, SCALE)
VCross(a, b) ==
    Vec(RDiv(a.y * b.z - a.z * b.y, SCALE),
        RDiv(a.z * b.x - a.x * b.z, SCALE),
        RDiv(a.x * b.y - a.y * b.x, SCALE))
VLength(a) == ISqrt(a.x * a.x + a.y * a.y + a.z * a.z)
\* Vector3.normalize: divideScalar(length() || 1), so the zero vector stays
\* the zero vector.
VDivideScalar(a, d) == Vec(FDiv(a.x, d), FDiv(a.y, d), FDiv(a.z, d))
VDivideByLength(a, len) == VDivideScalar(a, IF len = 0 THEN SCALE ELSE len)
VNormalize(a) == VDivideByLength(a, VLength(a))
\* One component of Vector3.lerp / lerpVectors: a + (b - a) * t, the
\* product taken on the split difference so that it stays within 32 bits.
LerpTo(a, b, t) ==
    LET d == b - a
    IN  a + (d \div SCALE) * t + RDiv((d % SCALE) * t, SCALE)
VLerp(a, b, t) ==
    Vec(LerpTo(a.x, b.x, t), LerpTo(a.y, b.y, t), LerpTo(a.z, b.z, t))
WorldUp == Vec(0, SCALE, 0)
Origin == Vec(0, 0, 0)
IsZero(a) == a.x = 0 /\ a.y = 0 /\ a.z = 0

(***************************************************************************)
(* THREE.Quaternion and the rotation part of THREE.Matrix4                 *)
(***************************************************************************)
Quat(x, y, z, w) == [x |-> x, y |-> y, z |-> z, w |-> w]
Identity == Quat(0, 0, 0, SCALE)
QNegate(q) == Quat(-q.x, -q.y, -q.z, -q.w)
QDot(a, b) == RDiv(a.x * b.x + a.y * b.y + a.z * b.z + a.w * b.w, SCALE)
QLength(q) == ISqrt(q.x * q.x + q.y * q.y + q.z * q.z + q.w * q.w)
\* Quaternion.normalize: a zero quaternion becomes the identity.
QDivideByLength(q, l) ==
    IF l = 0 THEN Identity
    ELSE Quat(FDiv(q.x, l), FDiv(q.y, l), FDiv(q.z, l), FDiv(q.w, l))
QNormalize(q) == QDivideByLength(q, QLength(q))
\* Quaternion.multiply: a * b.
QMultiply(a, b) ==
    Quat(RDiv(a.x * b.w + a.w * b.x + a.y * b.z - a.z * b.y, SCALE),
         RDiv(a.y * b.w + a.w * b.y + a.z * b.x - a.x * b.z, SCALE),
         RDiv(a.z * b.w + a.w * b.z + a.x * b.y - a.y * b.x, SCALE),
         RDiv(a.w * b.w - a.x * b.x - a.y * b.y - a.z * b.z, SCALE))
\* Quaternion.setFromAxisAngle: the axis is taken as given, not normalized.
QFromSinCos(axis, s, c) ==
    Quat(FMul(axis.x, s), FMul(axis.y, s), FMul(axis.z, s), c)
QFromHalfAngle(axis, halfAngle) ==
    QFromSinCos(axis, Sin(halfAngle), Cos(halfAngle))
QFromAxisAngle(axis, angle) == QFromHalfAngle(axis, RDiv(angle, 2))

\* Matrix4.lookAt(eye, target, up): the columns x, y, z of the rotation.
Basis(x, z) == [x |-> x, y |-> VCross(z, x), z |-> z]
\* up and z parallel: z is nudged (by 0.0001 in three.js, by one unit of the
\* model's resolution here) and the cross product is taken again.
LookAtNudged(up, z) == Basis(VNormalize(VCross(up, z)), z)
LookAtCrossed(up, z, x) ==
    IF ~IsZero(x) THEN Basis(VNormalize(x), z)
    ELSE IF Abs(up.z) = SCALE
         THEN LookAtNudged(up, VNormalize(Vec(z.x + 1, z.y, z.z)))
         ELSE LookAtNudged(up, VNormalize(Vec(z.x, z.y, z.z + 1)))
LookAtAlong(up, z) == LookAtCrossed(up, z, VCross(up, z))
LookAtFrom(up, z) ==
    LookAtAlong(up, VNormalize(IF IsZero(z) THEN Vec(0, 0, SCALE) ELSE z))
LookAt(eye, target, up) == LookAtFrom(up, VSub(eye, target))

\* Quaternion.setFromRotationMatrix; s = 0.5 / sqrt(trace + 1), and
\* s = 2 * sqrt(...) in the other branches, are folded into the quotients.
QFromTrace(m, r) ==
    Quat(FDiv(m.y.z - m.z.y, 2 * r), FDiv(m.z.x - m.x.z, 2 * r),
         FDiv(m.x.y - m.y.x, 2 * r), RDiv(r, 2))
QFromM11(m, s) ==
    Quat(RDiv(s, 4), FDiv(m.y.x + m.x.y, s), FDiv(m.z.x + m.x.z, s),
         FDiv(m.y.z - m.z.y, s))
QFromM22(m, s) ==
    Quat(FDiv(m.y.x + m.x.y, s), RDiv(s, 4), FDiv(m.z.y + m.y.z, s),
         FDiv(m.z.x - m.x.z, s))
QFromM33(m, s) ==
    Quat(FDiv(m.z.x + m.x.z, s), FDiv(m.z.y + m.y.z, s), RDiv(s, 4),
         FDiv(m.x.y - m.y.x, s))
QFromRotationMatrix(m) ==
    IF m.x.x + m.y.y + m.z.z > 0
    THEN QFromTrace(m, Sqrt(m.x.x + m.y.y + m.z.z + SCALE))
    ELSE IF m.x.x > m.y.y /\ m.x.x > m.z.z
    THEN QFromM11(m, 2 * Sqrt(SCALE + m.x.x - m.y.y - m.z.z))
    ELSE IF m.y.y > m.z.z
    THEN QFromM22(m, 2 * Sqrt(SCALE + m.y.y - m.x.x - m.z.z))
    ELSE QFromM33(m, 2 * Sqrt(SCALE + m.z.z - m.x.x - m.y.y))

\* Quaternion.slerp(qb, t) on a.
QBlend(a, b, ratioA, ratioB) ==
    Quat(FMul(a.x, ratioA) + FMul(b.x, ratioB),
         FMul(a.y, ratioA) + FMul(b.y, ratioB),
         FMul(a.z, ratioA) + FMul(b.z, ratioB),
         FMul(a.w, ratioA) + FMul(b.w, ratioB))
\* Math.sin(t * halfTheta) / sinHalfTheta.  Both are small when the two
\* rotations are close, and three decimals of each leave one digit of the
\* quotient: it is computed as t * sinc(t * halfTheta) / sinc(halfTheta),
\* the same number.
SlerpRatio(t, halfTheta) ==
    FDiv(FMul(t, Sinc(FMul(t, halfTheta))), Sinc(halfTheta))
\* Math.atan2(sin, cos) with sin > 0 and sin^2 + cos^2 = 1 is acos(cos).
QSlerpByAngle(a, b, t, sinHalfTheta, halfTheta) ==
    QBlend(a, b, SlerpRatio(SCALE - t, halfTheta), SlerpRatio(t, halfTheta))
QSlerpByCos(a, b, t, cosHalfTheta, sqrSinHalfTheta) ==
    IF cosHalfTheta >= SCALE THEN a
    ELSE IF sqrSinHalfTheta <= 0 THEN QNormalize(QBlend(a, b, SCALE - t, t))
    ELSE QSlerpByAngle(a, b, t, Sqrt(sqrSinHalfTheta), Acos(cosHalfTheta))
QSlerpByDot(a, qb, t, d) ==
    QSlerpByCos(a, IF d < 0 THEN QNegate(qb) ELSE qb, t, Abs(d),
                SCALE - FMul(Abs(d), Abs(d)))
QSlerp(a, qb, t) ==
    IF t = 0 THEN a
    ELSE IF t = SCALE THEN qb
    ELSE QSlerpByDot(a, qb, t, QDot(a, qb))

\* Vector3.applyQuaternion: q * v * conjugate(q).
QTimesVector(q, v) ==
    Quat(RDiv(q.w * v.x + q.y * v.z - q.z * v.y, SCALE),
         RDiv(q.w * v.y + q.z * v.x - q.x * v.z, SCALE),
         RDiv(q.w * v.z + q.x * v.y - q.y * v.x, SCALE),
         RDiv(-q.x * v.x - q.y * v.y - q.z * v.z, SCALE))
TimesConjugate(i, q) ==
    Vec(RDiv(i.x * q.w - i.w * q.x - i.y * q.z + i.z * q.y, SCALE),
        RDiv(i.y * q.w - i.w * q.y - i.z * q.x + i.x * q.z, SCALE),
        RDiv(i.z * q.w - i.w * q.z - i.x * q.y + i.y * q.x, SCALE))
ApplyQuaternion(v, q) == TimesConjugate(QTimesVector(q, v), q)

(***************************************************************************)
(* The flight path.  linePoints = curve.getPoints(NO_OF_POINTS) holds      *)
(* NO_OF_POINTS + 1 samples, indexed from 0.  The curve is authored        *)
(* configuration: the model draws it from a few sample arrays.             *)
(***************************************************************************)
NumPoints == NO_OF_POINTS + 1
Indices == 0 .. (NumPoints - 1)
Half == (NumPoints - 1) \div 2

\* Straight and level, along -z.
PathStraight == [i \in Indices |-> Vec(0, 0, -2 * SCALE * i)]
\* Climbing ever more steeply: elevation steps 0.25, 0.75, 1.25, ...
PathClimb == [i \in Indices |-> Vec(0, 250 * i * i, -2 * SCALE * i)]
\* Out along -z, then back along +z one lane over, descending.
PathHairpin ==
    [i \in Indices |->
        IF i <= Half THEN Vec(0, 0, -2 * SCALE * i)
        ELSE Vec(2 * SCALE, -500 * (i - Half),
                 -2 * SCALE * Half + 4 * SCALE * (i - Half))]
\* Degenerate: every sample is repeated once, so samples 2k and 2k+1
\* coincide.
PathDoubled == [i \in Indices |-> Vec(0, 0, -2 * SCALE * (i \div 2))]
Paths == {PathStraight, PathClimb, PathHairpin, PathDoubled}

\* What the frame driver and the scroll collaborator supply: the frame
\* delta in seconds and scroll.offset in [0, 1].
Deltas == {0, 16, 1000, 2500}
Offsets == {0, 500, 1000}

(***************************************************************************)
(* State                                                                   *)
(***************************************************************************)
VARIABLES
    linePoints,      \* the precomputed samples
    planeGroup,      \* planeGroup.current is set
    cameraRef,       \* cameraRef.current is set
    smoothScroll,    \* smoothScroll.current
    bankAngle,       \* bankAngle.current
    pitchAngle,      \* pitchAngle.current
    yawAngle,        \* yawAngle.current
    frameCount,      \* frameCount.current
    lastDirection,   \* lastDirection.current
    planePosition,   \* planeGroup.current.position
    planeQuaternion, \* planeGroup.current.quaternion
    currentRotation, \* currentRotation.current
    axes,            \* xAxis.current, yAxis.current, zAxis.current
    lastPosition,    \* lastPosition.current, the smoothed camera position
    lastLookAt,      \* lastLookAt.current, the smoothed look-at target
    cameraPosition,  \* cameraRef.current.position
    scrollOffset,    \* scroll.offset read by the latest callback
    delta,           \* the delta handed to the latest callback
    calls,           \* invocations of the frame callback so far
    locals,          \* the locals of the latest callback that got to them
    wrote,           \* the state the latest callback assigned
    threw,           \* the latest callback ended in a TypeError
    debugEnabled,    \* DEBUG.ENABLED
    logged,          \* the latest callback wrote the debug block to the console
    renders,         \* re-renders of Experience so far
    sceneMounted,    \* the Scene component is mounted
    listening,       \* handleKeyDown is a keydown listener of window
    pressed          \* the keys of the keydown events recorded so far

vars == <<linePoints, planeGroup, cameraRef, smoothScroll, bankAngle,
          pitchAngle, yawAngle, frameCount, lastDirection, planePosition,
          planeQuaternion, currentRotation, axes, lastPosition, lastLookAt,
          cameraPosition, scrollOffset, delta, calls, locals, wrote, threw,
          debugEnabled, logged, renders, sceneMounted, listening, pressed>>

\* What the Scene component adds to the state.
scene == <<sceneMounted, listening, pressed>>

\* What the callback assigns after the samples are looked up.
flight == <<bankAngle, pitchAngle, yawAngle, lastDirection, planePosition,
            planeQuaternion, currentRotation, axes, lastPosition, lastLookAt,
            cameraPosition>>

(***************************************************************************)
(* The locals of the frame callback                                        *)
(***************************************************************************)
\* linePoints.length
Length == Cardinality(DOMAIN linePoints)
\* An index kept in range by wrapping around instead of Math.min.
CurPointIndexWrapped(ss) == Floor(ss * (Length - 1)) % (Length - 1)
\* Lines 419-422.
CurPointIndex(ss) ==
    IF IsNaN(ss) THEN NaN ELSE Min(Floor(ss * (Length - 1)), Length - 2)
\* The look-ahead index without Math.min.
FuturePointIndexUnclamped(i) == i + LOOK_AHEAD
\* Lines 426-427 and 428-431.
NextPointIndex(i) == Min(i + 1, Length - 1)
FuturePointIndex(i) == Min(i + LOOK_AHEAD, Length - 1)
\* The scaled progress taken whole, without the % 1.
InterpolationFactorWhole(ss) == ss * (Length - 1)
\* Lines 434-435.
InterpolationFactor(ss) ==
    IF IsNaN(ss) THEN NaN ELSE Mod1(ss * (Length - 1))
\* The interpolation taken from the next sample back to the current one.
CurrentPositionFromNext(curPoint, nextPoint, f) == VLerp(nextPoint, curPoint, f)
\* Lines 436-440.
CurrentPosition(curPoint, nextPoint, f) == VLerp(curPoint, nextPoint, f)
\* Lines 443-445.
ForwardDirection(curPoint, nextPoint) == VNormalize(VSub(nextPoint, curPoint))
\* Lines 457-459.
FutureDirection(futurePoint, currentPosition) ==
    VNormalize(VSub(futurePoint, currentPosition))
\* Lines 463-465.
Right(forwardDirection) == VNormalize(VCross(forwardDirection, WorldUp))
\* Lines 472-479.
HorizontalFuture(futureDirection) ==
    VNormalize(Vec(futureDirection.x, 0, futureDirection.z))
TurnAmount(forwardDirection, futureDirection) ==
    Acos(Min(Max(VDot(forwardDirection, HorizontalFuture(futureDirection)),
                 -SCALE), SCALE))
\* Line 480.
TurnDirection(right, futureDirection) == Sign(VDot(right, futureDirection))
\* Lines 483-484.
TargetBankAngle(turnDirection, turnAmount) ==
    FMul(-turnDirection * turnAmount, MAX_BANK_ANGLE) * BANK_GAIN
\* TargetPitchAngle with Math.min and Math.max the other way round.
TargetPitchAngleMinOfMax(curPoint, nextPoint) ==
    Min(Max(FMul(nextPoint.y - curPoint.y, ELEVATION_INFLUENCE), MAX_PITCH_ANGLE),
        -MAX_PITCH_ANGLE)
\* TargetPitchAngle without the clamp of lines 489-495.
TargetPitchAngleUnclamped(curPoint, nextPoint) ==
    FMul(nextPoint.y - curPoint.y, ELEVATION_INFLUENCE)
\* Lines 488-495.
TargetPitchAngle(curPoint, nextPoint) ==
    Max(Min(FMul(nextPoint.y - curPoint.y, ELEVATION_INFLUENCE), MAX_PITCH_ANGLE),
        -MAX_PITCH_ANGLE)
\* Lines 499-505.
TargetYawAngle(directionChange) ==
    FMul(VLength(Vec(directionChange.x, 0, directionChange.z))
            * Sign(directionChange.x),
         YAW_GAIN)
\* Lines 527-529.
BaseRotation(forwardDirection) ==
    QFromRotationMatrix(LookAt(Origin, forwardDirection, WorldUp))
\* The same factors with pitch applied before bank.
TargetRotationPitchFirst(forwardDirection, right, bank, pitch) ==
    QMultiply(QMultiply(BaseRotation(forwardDirection),
                        QFromAxisAngle(right, pitch)),
              QFromAxisAngle(forwardDirection, bank))
\* Lines 532-552: base, then bank about forward, then pitch about right.
\* The yaw rotation of lines 544-547 is built and not used.
TargetRotation(forwardDirection, right, bank, pitch) ==
    QMultiply(QMultiply(BaseRotation(forwardDirection),
                        QFromAxisAngle(forwardDirection, bank)),
              QFromAxisAngle(right, pitch))
\* The plane taken half of the way to the sampled position.
PlanePositionHalfway(position, currentPosition) ==
    VLerp(position, currentPosition, SCALE \div 2)
\* Lines 558-561: the plane goes POSITION_LERP of the way to the sampled
\* position, whatever the delta.
PlanePosition(position, currentPosition) ==
    VLerp(position, currentPosition, POSITION_LERP)
\* Lines 565-567.
Axes(q) ==
    <<ApplyQuaternion(Vec(SCALE, 0, 0), q), ApplyQuaternion(Vec(0, SCALE, 0), q),
      ApplyQuaternion(Vec(0, 0, SCALE), q)>>
\* Lines 570-576.
TargetCameraPos(currentPosition, q) ==
    VAdd(currentPosition,
         ApplyQuaternion(Vec(0, CAMERA_HEIGHT, CAMERA_DISTANCE), q))

(***************************************************************************)
(* The callback's computation in the order of the source, each stage a     *)
(* record of the locals so far.                                            *)
(***************************************************************************)
\* Lines 419-435.
Sampled(pts, ss, idx) ==
    [smoothScroll |-> ss, curPointIndex |-> idx, curPoint |-> pts[idx],
     nextPoint |-> pts[NextPointIndex(idx)],
     futurePoint |-> pts[FuturePointIndex(idx)],
     interpolationFactor |-> InterpolationFactor(ss)]
\* Lines 436-445.
Positioned(L) ==
    L @@ [currentPosition |->
              CurrentPosition(L.curPoint, L.nextPoint, L.interpolationFactor),
          forwardDirection |-> ForwardDirection(L.curPoint, L.nextPoint)]
\* The direction change taken after lastDirection has been overwritten.
DirectedAfterOverwrite(L, lastDir) ==
    L @@ [directionChange |-> VSub(L.forwardDirection, L.forwardDirection),
          futureDirection |-> FutureDirection(L.futurePoint, L.currentPosition),
          right |-> Right(L.forwardDirection)]
\* Lines 448-468.
Directed(L, lastDir) ==
    L @@ [directionChange |-> VSub(L.forwardDirection, lastDir),
          futureDirection |-> FutureDirection(L.futurePoint, L.currentPosition),
          right |-> Right(L.forwardDirection)]
\* Lines 472-480.
Turned(L) ==
    L @@ [turnAmount |-> TurnAmount(L.forwardDirection, L.futureDirection),
          turnDirection |-> TurnDirection(L.right, L.futureDirection)]
\* Lines 483-505.
Targeted(L) ==
    L @@ [targetBankAngle |-> TargetBankAngle(L.turnDirection, L.turnAmount),
          targetPitchAngle |-> TargetPitchAngle(L.curPoint, L.nextPoint),
          targetYawAngle |-> TargetYawAngle(L.directionChange)]
\* Lines 508-524.
Smoothed(L, bank, pitch, yaw) ==
    L @@ [bankAngle |-> Lerp(bank, L.targetBankAngle, BANK_LERP),
          pitchAngle |-> Lerp(pitch, L.targetPitchAngle, PITCH_LERP),
          yawAngle |-> Lerp(yaw, L.targetYawAngle, YAW_LERP)]
\* The composition with the yaw rotation as a fourth factor.
ComposedWithYaw(L) ==
    L @@ [targetRotation |->
              QMultiply(TargetRotation(L.forwardDirection, L.right, L.bankAngle,
                                       L.pitchAngle),
                        QFromAxisAngle(WorldUp, L.yawAngle))]
\* Lines 527-552.
Composed(L) ==
    L @@ [targetRotation |->
              TargetRotation(L.forwardDirection, L.right, L.bankAngle,
                             L.pitchAngle)]
\* Line 555.
Rotated(L, rotation) ==
    L @@ [currentRotation |-> QSlerp(rotation, L.targetRotation, ROTATION_LERP)]
\* Lines 570-576.
Aimed(L) ==
    L @@ [targetCameraPos |-> TargetCameraPos(L.currentPosition, L.currentRotation)]

Locals(pts, ss, lastDir, bank, pitch, yaw, rotation) ==
    Aimed(Rotated(Composed(Smoothed(Targeted(Turned(Directed(Positioned(
        Sampled(pts, ss, CurPointIndex(ss))), lastDir))), bank, pitch, yaw)),
        rotation))

NoLocals ==
    [smoothScroll |-> 0, curPointIndex |-> 0, curPoint |-> Origin,
     nextPoint |-> Origin, futurePoint |-> Origin, interpolationFactor |-> 0,
     currentPosition |-> Origin, forwardDirection |-> Origin,
     directionChange |-> Origin, futureDirection |-> Origin, right |-> Origin,
     turnAmount |-> 0, turnDirection |-> 0, targetBankAngle |-> 0,
     targetPitchAngle |-> 0, targetYawAngle |-> 0, bankAngle |-> 0,
     pitchAngle |-> 0, yawAngle |-> 0, targetRotation |-> Identity,
     currentRotation |-> Identity, targetCameraPos |-> Origin]

AllWritten == {"frameCount", "smoothScroll", "lastDirection", "bankAngle",
               "pitchAngle", "yawAngle", "currentRotation", "planePosition",
               "planeQuaternion", "axes", "lastPosition", "lastLookAt",
               "cameraPosition"}

(***************************************************************************)
(* Init: the refs of Experience as useRef creates them (lines 387-404).    *)
(***************************************************************************)
InitRefs ==
    /\ planeGroup = FALSE
    /\ cameraRef = FALSE
    /\ smoothScroll = 0
    /\ bankAngle = 0
    /\ pitchAngle = 0
    /\ yawAngle = 0
    /\ frameCount = 0
    /\ lastDirection = Vec(0, 0, -SCALE)
    /\ planePosition = Origin
    /\ planeQuaternion = Identity
    /\ currentRotation = Identity
    /\ axes = <<Vec(SCALE, 0, 0), Vec(0, SCALE, 0), Vec(0, 0, SCALE)>>
    /\ lastPosition = Origin
    /\ lastLookAt = Origin
    /\ cameraPosition = Vec(0, CAMERA_HEIGHT, CAMERA_DISTANCE)
    /\ scrollOffset = 0
    /\ delta = 0
    /\ calls = 0
    /\ locals = NoLocals
    /\ wrote = {}
    /\ threw = FALSE
    /\ debugEnabled = TRUE
    /\ logged = FALSE
    /\ renders = 0
    \* Scene is mounted and its effect has run (lines 749-761).
    /\ sceneMounted = TRUE
    /\ listening = TRUE
    /\ pressed = <<>>

\* The samples are those of curve.getPoints(NO_OF_POINTS), lines 330-333.
Init == linePoints \in Paths /\ InitRefs

\* React attaches the refs of <group> and <PerspectiveCamera> (lines 625-631).
Mount ==
    /\ sceneMounted
    /\ ~planeGroup
    /\ planeGroup' = TRUE
    /\ cameraRef' = TRUE
    /\ UNCHANGED <<linePoints, smoothScroll, frameCount, flight, scrollOffset,
                   delta, calls, locals, wrote, threw, debugEnabled, logged,
                   renders, scene>>

(***************************************************************************)
(* The useFrame callback, lines 407-617.                                   *)
(***************************************************************************)
\* Lines 413-417.
SmoothScroll(ss, o, d) ==
    IF IsNaN(ss) \/ IsNaN(o) \/ IsNaN(d) THEN NaN
    ELSE Lerp(ss, o, d * SCROLL_SMOOTHING)

\* A callback that counts the frame before it looks at the refs.
FrameGuardedCounts(d, o) ==
    /\ ~planeGroup \/ ~cameraRef
    /\ delta' = d
    /\ scrollOffset' = o
    /\ frameCount' = frameCount + 1
    /\ wrote' = {"frameCount"}
    /\ threw' = FALSE
    /\ logged' = FALSE
    /\ UNCHANGED <<linePoints, planeGroup, cameraRef, smoothScroll, flight,
                   locals, debugEnabled, renders, scene>>

\* Line 408: the callback returns at once while a ref is null.
FrameGuarded(d, o) ==
    /\ ~planeGroup \/ ~cameraRef
    /\ delta' = d
    /\ scrollOffset' = o
    /\ wrote' = {}
    /\ threw' = FALSE
    /\ logged' = FALSE
    /\ UNCHANGED <<linePoints, planeGroup, cameraRef, smoothScroll, frameCount,
                   flight, locals, debugEnabled, renders, scene>>

\* Lines 410-436 when the sample index is negative: linePoints[curPointIndex]
\* is undefined and lerpVectors throws a TypeError reading its x.
Thrown(d, o, ss) ==
    /\ delta' = d
    /\ scrollOffset' = o
    /\ frameCount' = frameCount + 1
    /\ smoothScroll' = ss
    /\ locals' = [locals EXCEPT !.smoothScroll = ss,
                                !.curPointIndex = CurPointIndex(ss),
                                !.interpolationFactor = InterpolationFactor(ss)]
    /\ wrote' = {"frameCount", "smoothScroll"}
    /\ threw' = TRUE
    /\ logged' = FALSE
    /\ UNCHANGED <<linePoints, planeGroup, cameraRef, flight, debugEnabled,
                   renders, scene>>

FrameThrows(d, o) ==
    /\ planeGroup /\ cameraRef
    /\ CurPointIndex(SmoothScroll(smoothScroll, o, d)) \notin DOMAIN linePoints
    /\ Thrown(d, o, SmoothScroll(smoothScroll, o, d))

\* Line 593: the debug block runs when DEBUG.ENABLED is set and the frame
\* counter is a multiple of DEBUG.LOG_INTERVAL.
DebugLogging(enabled, count) == enabled /\ count % LOG_INTERVAL = 0

\* Lines 410-616 otherwise: every ref is assigned from the locals, then the
\* debug block reads them.
Published(d, o, L) ==
    /\ delta' = d
    /\ scrollOffset' = o
    /\ frameCount' = frameCount + 1
    /\ smoothScroll' = L.smoothScroll
    /\ lastDirection' = L.forwardDirection
    /\ bankAngle' = L.bankAngle
    /\ pitchAngle' = L.pitchAngle
    /\ yawAngle' = L.yawAngle
    /\ currentRotation' = L.currentRotation
    /\ planePosition' = PlanePosition(planePosition, L.currentPosition)
    /\ planeQuaternion' = L.currentRotation
    /\ axes' = Axes(L.currentRotation)
    /\ lastPosition' = VLerp(lastPosition, L.targetCameraPos, d * MOVEMENT_SMOOTHING)
    /\ lastLookAt' = VLerp(lastLookAt, L.currentPosition, d * MOVEMENT_SMOOTHING)
    /\ cameraPosition' = lastPosition'
    /\ locals' = L
    /\ wrote' = AllWritten
    /\ threw' = FALSE
    /\ logged' = DebugLogging(debugEnabled, frameCount + 1)
    /\ UNCHANGED <<linePoints, planeGroup, cameraRef, debugEnabled, renders, scene>>

FrameRuns(d, o) ==
    /\ planeGroup /\ cameraRef
    /\ CurPointIndex(SmoothScroll(smoothScroll, o, d)) \in DOMAIN linePoints
    /\ Published(d, o, Locals(linePoints, SmoothScroll(smoothScroll, o, d),
                              lastDirection, bankAngle, pitchAngle, yawAngle,
                              currentRotation))

Frame(d, o) == FrameGuarded(d, o) \/ FrameThrows(d, o) \/ FrameRuns(d, o)

\* The render loop calls the callback once per frame.
Tick ==
    /\ calls < MaxFrames
    /\ calls' = calls + 1
    /\ \E d \in Deltas, o \in Offsets : Frame(d, o)

Next == Mount \/ Tick

Spec == Init /\ [][Next]_vars

(***************************************************************************)
(* A steady frame driver: 60 frames a second, the scroll offset chosen     *)
(* before the first frame and then left alone.  The behaviours are         *)
(* behaviours of Spec with a longer horizon.                               *)
(***************************************************************************)
SteadyDeltas == {16}
TickSteady ==
    /\ calls < MaxSteadyFrames
    /\ calls' = calls + 1
    /\ \E d \in SteadyDeltas, o \in Offsets :
          /\ calls = 0 \/ o = scrollOffset
          /\ Frame(d, o)

NextSteady == Mount \/ TickSteady

SpecSteady == Init /\ [][NextSteady]_vars

(***************************************************************************)
(* Scene: the keydown listener of lines 750-762.  The handler runs between *)
(* frames, the browser's event loop runs one callback at a time.           *)
(***************************************************************************)
Keys == {"d", "Escape"}
\* Lines 751-754: DEBUG.ENABLED after the handler has seen the key.
HandleKeyDown(key, enabled) == IF key = "d" THEN ~enabled ELSE enabled

\* A handler that also rewinds the flight to the start of the path.
KeyDownRewinds ==
    /\ listening
    /\ \E key \in Keys : debugEnabled' = HandleKeyDown(key, debugEnabled)
    /\ smoothScroll' = 0
    /\ UNCHANGED <<linePoints, planeGroup, cameraRef, frameCount, flight,
                   scrollOffset, delta, calls, locals, wrote, threw, logged,
                   renders, scene>>

KeyDown ==
    /\ listening
    /\ \E key \in Keys : debugEnabled' = HandleKeyDown(key, debugEnabled)
    /\ UNCHANGED <<linePoints, planeGroup, cameraRef, smoothScroll, frameCount,
                   flight, scrollOffset, delta, calls, locals, wrote, threw,
                   logged, renders, scene>>

\* A render that creates the frame counter and the angles anew.
RerenderResets ==
    /\ renders < MaxRenders
    /\ renders' = renders + 1
    /\ frameCount' = 0
    /\ bankAngle' = 0
    /\ pitchAngle' = 0
    /\ yawAngle' = 0
    /\ UNCHANGED <<linePoints, planeGroup, cameraRef, smoothScroll,
                   lastDirection, planePosition, planeQuaternion,
                   currentRotation, axes, lastPosition, lastLookAt,
                   cameraPosition, scrollOffset, delta, calls, locals, wrote,
                   threw, debugEnabled, logged, scene>>

\* React renders Experience again: useRef hands back the same refs (lines
\* 387-404) and useMemo the same curve and samples (lines 324-333).
Rerender ==
    /\ renders < MaxRenders
    /\ renders' = renders + 1
    /\ UNCHANGED <<linePoints, planeGroup, cameraRef, smoothScroll, frameCount,
                   flight, scrollOffset, delta, calls, locals, wrote, threw,
                   debugEnabled, logged, scene>>

\* A short session with every kind of event.
TickEvents ==
    /\ calls < MaxEventFrames
    /\ calls' = calls + 1
    /\ \E d \in Deltas, o \in Offsets : Frame(d, o)

NextEvents == Mount \/ TickEvents \/ KeyDown \/ Rerender

SpecEvents == Init /\ [][NextEvents]_vars

\* A long session: two frames that are short or long, the refs attached by
\* then, and the steady driver from there on, with key presses in between.
SessionDeltas == {16, 2500}
TickDebug ==
    /\ calls < MaxDebugFrames
    /\ planeGroup \/ calls < 2
    /\ calls' = calls + 1
    /\ \E d \in SessionDeltas, o \in Offsets :
          /\ calls < 2 \/ (d \in SteadyDeltas /\ o = scrollOffset)
          /\ Frame(d, o)

NextDebug == Mount \/ TickDebug \/ KeyDown

SpecDebug == Init /\ [][NextDebug]_vars

(***************************************************************************)
(* What the collaborators can hand over when nothing is checked on the     *)
(* way in: a scroll offset outside [0, 1] and a delta that is NaN.         *)
(***************************************************************************)
RawOffsets == {-500, 500, 1500}
RawDeltas == {16, 1000, NaN}
TickRaw ==
    /\ calls < MaxRawFrames
    /\ calls' = calls + 1
    /\ \E d \in RawDeltas, o \in RawOffsets : Frame(d, o)

NextRaw == Mount \/ TickRaw

SpecRaw == Init /\ [][NextRaw]_vars

(***************************************************************************)
(* A curve sampled with a resolution of 1: curve.getPoints(1) is the first *)
(* and the last control point.                                             *)
(***************************************************************************)
CoarsePaths ==
    {[i \in 0 .. 1 |-> Vec(0, 0, -2 * SCALE * i)],
     [i \in 0 .. 1 |-> Vec(0, SCALE * i, -2 * SCALE * i)]}

InitCoarse == linePoints \in CoarsePaths /\ InitRefs

SpecCoarse == InitCoarse /\ [][Next]_vars

(***************************************************************************)
(* A path that turns back on itself and whose samples 1 and 2 coincide, as *)
(* samples of a curve with a repeated control point do.                    *)
(***************************************************************************)
PathStalled == [i \in Indices |-> IF i = 2 THEN PathHairpin[1] ELSE PathHairpin[i]]

InitStalled == linePoints = PathStalled /\ InitRefs

SpecStalled == InitStalled /\ [][NextDebug]_vars

(***************************************************************************)
(* The life of Scene: its effect adds handleKeyDown as a keydown listener  *)
(* of window after the mount and its cleanup removes it at the unmount     *)
(* (lines 749-761).  Experience is a child of Scene: it goes with it, and  *)
(* a later mount creates it anew.  DEBUG is an object of the module        *)
(* sceneConfig and outlives both.                                          *)
(***************************************************************************)
\* Keydown events recorded under SpecScene.
MaxKeys == 3

\* A keydown event on window: handleKeyDown sees it if it is a listener.
KeyPress ==
    /\ Len(pressed) < MaxKeys
    /\ \E key \in Keys :
          /\ pressed' = Append(pressed, key)
          /\ debugEnabled' = IF listening THEN HandleKeyDown(key, debugEnabled)
                              ELSE debugEnabled
    /\ UNCHANGED <<linePoints, planeGroup, cameraRef, smoothScroll, frameCount,
                   flight, scrollOffset, delta, calls, locals, wrote, threw,
                   logged, renders, sceneMounted, listening>>

\* An unmount whose cleanup leaves the listener on window.
SceneUnmountKeepsListener ==
    /\ sceneMounted
    /\ sceneMounted' = FALSE
    /\ planeGroup' = FALSE
    /\ cameraRef' = FALSE
    /\ UNCHANGED <<linePoints, smoothScroll, frameCount, flight, scrollOffset,
                   delta, calls, locals, wrote, threw, debugEnabled, logged,
                   renders, listening, pressed>>

\* Scene unmounts: the cleanup of lines 758-760 removes the listener, and
\* React detaches the refs of the children.
SceneUnmount ==
    /\ sceneMounted
    /\ sceneMounted' = FALSE
    /\ listening' = FALSE
    /\ planeGroup' = FALSE
    /\ cameraRef' = FALSE
    /\ UNCHANGED <<linePoints, smoothScroll, frameCount, flight, scrollOffset,
                   delta, calls, locals, wrote, threw, debugEnabled, logged,
                   renders, pressed>>

\* Scene mounts again: the effect adds the listener (line 757) and the new
\* Experience creates its refs as at first (lines 387-404).
SceneMount ==
    /\ ~sceneMounted
    /\ sceneMounted' = TRUE
    /\ listening' = TRUE
    /\ smoothScroll' = 0
    /\ bankAngle' = 0
    /\ pitchAngle' = 0
    /\ yawAngle' = 0
    /\ frameCount' = 0
    /\ lastDirection' = Vec(0, 0, -SCALE)
    /\ planePosition' = Origin
    /\ planeQuaternion' = Identity
    /\ currentRotation' = Identity
    /\ axes' = <<Vec(SCALE, 0, 0), Vec(0, SCALE, 0), Vec(0, 0, SCALE)>>
    /\ lastPosition' = Origin
    /\ lastLookAt' = Origin
    /\ cameraPosition' = Vec(0, CAMERA_HEIGHT, CAMERA_DISTANCE)
    /\ UNCHANGED <<linePoints, planeGroup, cameraRef, scrollOffset, delta,
                   calls, locals, wrote, threw, debugEnabled, logged, renders,
                   pressed>>

NextScene == Mount \/ KeyPress \/ SceneUnmount \/ SceneMount

SpecScene == Init /\ [][NextScene]_vars

(***************************************************************************)
(* Properties                                                              *)
(***************************************************************************)
\* A step that is one invocation of the frame callback with both refs set.
FrameStep == calls' = calls + 1 /\ planeGroup /\ cameraRef
\* The latest invocation ran to the end of the callback.
Completed == wrote = AllWritten

\* C1: in every reachable state the sample index computed from the animated
\* progress, floor(progress * (N - 1)) capped at N - 2, lies in [0, N - 2],
\* so the curPoint and nextPoint lookups stay inside the sample array.
C1_IndexInRange == CurPointIndex(smoothScroll) \in 0 .. (NumPoints - 2)

\* C2: after any sequence of frames the animated progress is within [0, 1].
C2_ProgressInUnitInterval == smoothScroll >= 0 /\ smoothScroll <= SCALE

\* C3: when the animated progress is exactly 1, the sampled path position of
\* the frame is the final sample.
C3_EndResolvesToLastSample ==
    (Completed /\ smoothScroll = SCALE)
        => locals.currentPosition = linePoints[NumPoints - 1]

\* C4: on a frame with non-zero delta whose raw progress r is the one of the
\* frame before, the distance of the animated progress to r does not grow
\* and the animated progress does not cross r.
C4_MonotoneConvergence ==
    [][(FrameStep /\ scrollOffset' = scrollOffset /\ delta' # 0)
        => /\ Abs(smoothScroll' - scrollOffset') <= Abs(smoothScroll - scrollOffset')
           /\ (smoothScroll <= scrollOffset' => smoothScroll' <= scrollOffset')
           /\ (smoothScroll >= scrollOffset' => smoothScroll' >= scrollOffset')]_vars

\* C5: one update moves the animated progress a toward the raw progress r by
\* the fraction min(1, delta * SCROLL_SMOOTHING) of the gap.
C5_LagByClampedFraction ==
    [][FrameStep
        => smoothScroll' = Lerp(smoothScroll, scrollOffset',
                                Min(SCALE, delta' * SCROLL_SMOOTHING))]_vars

\* C6: on a frame whose current and next sample coincide, the forward
\* direction used, and stored as last direction, is the one of the frame
\* before.
C6_ForwardFallsBack ==
    [][(FrameStep /\ wrote' = AllWritten /\ locals'.curPoint = locals'.nextPoint)
        => /\ locals'.forwardDirection = lastDirection
           /\ lastDirection' = lastDirection]_vars

\* C7: the magnitude of the smoothed bank angle never exceeds MAX_BANK_ANGLE.
C7_BankBounded == Abs(bankAngle) <= MAX_BANK_ANGLE

\* C8: the magnitude of the smoothed pitch angle never exceeds
\* MAX_PITCH_ANGLE, whatever the elevation difference of the samples.
C8_PitchBounded == Abs(pitchAngle) <= MAX_PITCH_ANGLE
\* A frame on a slope steep enough for the clamp to cut the pitch target,
\* with the pitch under way towards it.
C8_Witness ==
    /\ Completed
    /\ FMul(locals.nextPoint.y - locals.curPoint.y, ELEVATION_INFLUENCE)
            > MAX_PITCH_ANGLE
    /\ locals.targetPitchAngle = MAX_PITCH_ANGLE
    /\ pitchAngle > PITCH_LERP
    /\ frameCount >= 2

\* C9: on a frame with delta = 0 the animated progress is unchanged, and the
\* bank, pitch and yaw angles are each moved toward their targets by their
\* lerp factor.
C9_ZeroDeltaFrame ==
    [][(FrameStep /\ delta' = 0)
        => /\ smoothScroll' = smoothScroll
           /\ {"bankAngle", "pitchAngle", "yawAngle"} \subseteq wrote'
           /\ bankAngle' = Lerp(bankAngle, locals'.targetBankAngle, BANK_LERP)
           /\ pitchAngle' = Lerp(pitchAngle, locals'.targetPitchAngle, PITCH_LERP)
           /\ yawAngle' = Lerp(yawAngle, locals'.targetYawAngle, YAW_LERP)]_vars

\* C10: every invocation of the frame callback on a mounted rig adds exactly
\* one to the frame counter and updates progress, angles, last direction,
\* orientation and camera state once.
C10_OneUpdatePerFrame ==
    [][FrameStep => (frameCount' = frameCount + 1 /\ wrote' = AllWritten)]_vars

\* The flight state of the rig: progress, angles, last forward direction,
\* orientation, position and camera state.
FlightState == <<smoothScroll, flight>>
\* The flight state the callback leaves when it runs to its end with the
\* locals L, from the refs before it and the frame's delta.
FlightFrom(d, L) ==
    <<L.smoothScroll,
      <<L.bankAngle, L.pitchAngle, L.yawAngle, L.forwardDirection,
        PlanePosition(planePosition, L.currentPosition),
        L.currentRotation, L.currentRotation, Axes(L.currentRotation),
        VLerp(lastPosition, L.targetCameraPos, d * MOVEMENT_SMOOTHING),
        VLerp(lastLookAt, L.currentPosition, d * MOVEMENT_SMOOTHING),
        VLerp(lastPosition, L.targetCameraPos, d * MOVEMENT_SMOOTHING)>>>>
\* The flight state after a frame with delta d and scroll offset o, from the
\* flight state before it: DEBUG.ENABLED is no argument.
FlightAfter(d, o, ss) ==
    IF ~planeGroup \/ ~cameraRef THEN FlightState
    ELSE IF CurPointIndex(ss) \notin DOMAIN linePoints THEN <<ss, flight>>
    ELSE FlightFrom(d, Locals(linePoints, ss, lastDirection, bankAngle,
                              pitchAngle, yawAngle, currentRotation))

C12_LogEveryInterval ==
    [][calls' = calls + 1
        => IF planeGroup /\ cameraRef
           THEN /\ frameCount' = frameCount + 1
                /\ logged' <=> (debugEnabled /\ frameCount' % LOG_INTERVAL = 0)
           ELSE ~logged']_vars

\* A raw progress brought into [0, 1].
Clamp01(o) == Max(0, Min(o, SCALE))
\* C13: the smoothing target of a frame is the scroll offset clamped to
\* [0, 1]: the animated progress moves toward the clamped value.
C13_RawProgressClamped ==
    [][FrameStep
        => smoothScroll' = SmoothScroll(smoothScroll, Clamp01(scrollOffset'),
                                        delta')]_vars

\* C14: a frame whose delta is NaN, its scroll offset within [0, 1], leaves
\* the animated progress, the smoothed camera position and the smoothed
\* look-at as they are, and the animated progress stays a number.
C14_NonFiniteDeltaIsZero ==
    [][(FrameStep /\ IsNaN(delta') /\ scrollOffset' = Clamp01(scrollOffset'))
        => /\ smoothScroll' = smoothScroll
           /\ lastPosition' = lastPosition
           /\ lastLookAt' = lastLookAt
           /\ ~IsNaN(smoothScroll')]_vars

\* C15: for samples taken with a curve resolution of 1 or less no rig comes
\* to be: the refs are never attached and no frame update runs.
C15_CoarsePathIsRejected ==
    Length < 3 => (~planeGroup /\ ~cameraRef /\ frameCount = 0)

\* What three decimals and the rounding of slerp leave of a unit length.
RotationTolerance == SCALE \div 100
\* C16: the stored orientation quaternion has magnitude 1, to the tolerance
\* the numbers of the model allow.
C16_RotationIsUnit ==
    Abs(QLength(currentRotation) - SCALE) <= RotationTolerance

C18_StartResolvesToFirstSample ==
    (Completed /\ smoothScroll = 0)
        => /\ locals.curPointIndex = 0
           /\ locals.interpolationFactor = 0
           /\ locals.currentPosition = linePoints[0]
\* The progress is back at exactly 0 after the plane has moved down the path.
C18_Witness ==
    /\ Completed
    /\ smoothScroll = 0
    /\ frameCount >= 2
    /\ planePosition # linePoints[0]
    /\ linePoints[1] # linePoints[0]

\* C20: the sample index is monotone in the progress over [0, 1], and on a
\* frame that takes the animated progress upward within [0, 1] the sample
\* index does not step backward.  The function depends on the path alone,
\* which no frame changes, so it is gone through before the first frame.
C20_IndexMonotone ==
    [][/\ calls = 0 =>
            \A p \in 0 .. (SCALE - 1) : CurPointIndex(p) <= CurPointIndex(p + 1)
       /\ (/\ FrameStep
           /\ smoothScroll >= 0 /\ smoothScroll' <= SCALE
           /\ smoothScroll <= smoothScroll')
            => CurPointIndex(smoothScroll) <= CurPointIndex(smoothScroll')]_vars
\* The animated progress is on its way up to a larger raw progress and the
\* frame has got past the first sample.
C20_Witness ==
    /\ Completed
    /\ frameCount >= 2
    /\ smoothScroll > 0 /\ smoothScroll < scrollOffset
    /\ locals.curPointIndex > 0
    /\ locals.curPointIndex < Length - 2

\* v lies between a and b, ends included.
Between(v, a, b) == Min(a, b) <= v /\ v <= Max(a, b)
\* p is the combination (1 - w) a + w b of the points a and b, to the unit
\* the numbers are rounded to.
IsCombination(p, a, b, w) ==
    /\ Abs(p.x * SCALE - ((SCALE - w) * a.x + w * b.x)) <= SCALE
    /\ Abs(p.y * SCALE - ((SCALE - w) * a.y + w * b.y)) <= SCALE
    /\ Abs(p.z * SCALE - ((SCALE - w) * a.z + w * b.z)) <= SCALE
\* C21: for an animated progress p in [0, 1] the frame's sampled position is
\* a convex combination of the samples i and i + 1, i the current sample
\* index, with the weight (p (N - 1)) mod 1 in [0, 1), and the scaled
\* progress p (N - 1) lies in [i, i + 1].
C21_PositionBetweenBracketingSamples ==
    (Completed /\ 0 <= smoothScroll /\ smoothScroll <= SCALE)
        => /\ locals.curPointIndex \in 0 .. (Length - 2)
           /\ locals.interpolationFactor = (smoothScroll * (Length - 1)) % SCALE
           /\ 0 <= locals.interpolationFactor
           /\ locals.interpolationFactor < SCALE
           /\ Between(smoothScroll * (Length - 1),
                      locals.curPointIndex * SCALE,
                      (locals.curPointIndex + 1) * SCALE)
           /\ IsCombination(locals.currentPosition,
                            linePoints[locals.curPointIndex],
                            linePoints[locals.curPointIndex + 1],
                            locals.interpolationFactor)
           /\ Between(locals.currentPosition.x,
                      linePoints[locals.curPointIndex].x,
                      linePoints[locals.curPointIndex + 1].x)
           /\ Between(locals.currentPosition.y,
                      linePoints[locals.curPointIndex].y,
                      linePoints[locals.curPointIndex + 1].y)
           /\ Between(locals.currentPosition.z,
                      linePoints[locals.curPointIndex].z,
                      linePoints[locals.curPointIndex + 1].z)
\* A frame that samples strictly between two samples past the first one, on a
\* segment that changes height.
C21_Witness ==
    /\ Completed
    /\ 0 < smoothScroll /\ smoothScroll < SCALE
    /\ locals.curPointIndex > 0
    /\ locals.interpolationFactor > 0
    /\ locals.currentPosition # locals.curPoint
    /\ locals.currentPosition.y # locals.nextPoint.y

\* C22: the yaw target of a frame comes from the difference between the
\* frame's forward direction and the last direction as the frame before left
\* it, (0, 0, -1) before the first frame; the last direction is overwritten
\* with the frame's forward direction after the difference is taken.
C22_YawFromStoredDirection ==
    [][/\ frameCount = 0 => lastDirection = Vec(0, 0, -SCALE)
       /\ (FrameStep /\ wrote' = AllWritten)
            => /\ locals'.directionChange =
                      VSub(locals'.forwardDirection, lastDirection)
               /\ locals'.targetYawAngle =
                      FMul(VLength(Vec(locals'.forwardDirection.x - lastDirection.x,
                                       0,
                                       locals'.forwardDirection.z - lastDirection.z))
                              * Sign(locals'.forwardDirection.x - lastDirection.x),
                           YAW_GAIN)
               /\ lastDirection' = locals'.forwardDirection]_vars
\* A later frame that turned against the direction the frame before had
\* stored, with a yaw target to show for it.
C22_Witness ==
    /\ Completed
    /\ frameCount >= 2
    /\ locals.directionChange.x # 0
    /\ locals.targetYawAngle # 0
    /\ lastDirection = locals.forwardDirection
    /\ lastDirection # Vec(0, 0, -SCALE)

\* The vectors a and b agree to within tol units in every component.
VNear(a, b, tol) ==
    /\ Abs(a.x - b.x) <= tol
    /\ Abs(a.y - b.y) <= tol
    /\ Abs(a.z - b.z) <= tol
\* Rounding of a normalized direction: two thousandths a component.
DirectionTolerance == SCALE \div 500
\* C23: the look-ahead direction used for banking is the direction from the
\* current sample point to the future sample point, whatever the fraction
\* of the way to the next sample.
C23_LookAheadFromCurPoint ==
    Completed =>
        VNear(locals.futureDirection,
              VNormalize(VSub(locals.futurePoint, locals.curPoint)),
              DirectionTolerance)

\* Elevation changes between two samples, from two down to two up in steps
\* of a twentieth.
ElevationChanges == {50 * k : k \in -40 .. 40}
\* The value v held to [lo, hi]: v inside the range, the nearer end outside.
Clamped(v, lo, hi) == IF v < lo THEN lo ELSE IF v > hi THEN hi ELSE v
\* C24: the pitch target of two consecutive samples is the elevation change
\* times ELEVATION_INFLUENCE when that lies in [-MAX_PITCH_ANGLE,
\* MAX_PITCH_ANGLE], and the nearer end of that range otherwise; for the
\* consecutive samples of the path, for the frame's own pair and for every
\* elevation change of ElevationChanges.
C24_PitchTargetIsClampedProduct ==
    /\ \A i \in 0 .. (Length - 2) :
          TargetPitchAngle(linePoints[i], linePoints[i + 1]) =
              Clamped(FMul(linePoints[i + 1].y - linePoints[i].y,
                           ELEVATION_INFLUENCE),
                      -MAX_PITCH_ANGLE, MAX_PITCH_ANGLE)
    /\ \A dy \in ElevationChanges :
          TargetPitchAngle(Origin, Vec(0, dy, -SCALE)) =
              Clamped(FMul(dy, ELEVATION_INFLUENCE),
                      -MAX_PITCH_ANGLE, MAX_PITCH_ANGLE)
    /\ Completed =>
          locals.targetPitchAngle =
              Clamped(FMul(linePoints[locals.curPointIndex + 1].y
                               - linePoints[locals.curPointIndex].y,
                           ELEVATION_INFLUENCE),
                      -MAX_PITCH_ANGLE, MAX_PITCH_ANGLE)
\* A frame on a segment too steep for the range, on a path that also has a
\* segment inside it.
C24_Witness ==
    /\ Completed
    /\ FMul(locals.nextPoint.y - locals.curPoint.y, ELEVATION_INFLUENCE)
           > MAX_PITCH_ANGLE
    /\ locals.targetPitchAngle = MAX_PITCH_ANGLE
    /\ \E i \in 0 .. (Length - 2) :
          /\ linePoints[i + 1].y # linePoints[i].y
          /\ Abs(FMul(linePoints[i + 1].y - linePoints[i].y, ELEVATION_INFLUENCE))
                 < MAX_PITCH_ANGLE

\* The square of the distance between the points a and b.
DistanceSq(a, b) ==
    (a.x - b.x) * (a.x - b.x) + (a.y - b.y) * (a.y - b.y)
        + (a.z - b.z) * (a.z - b.z)
\* The fraction POSITION_LERP of a remaining distance rounds to nothing.
WithinRounding(a, b) == VNear(a, b, (SCALE \div (2 * POSITION_LERP)) - 1)
\* C25: on a frame whose sampled path position is that of the frame before,
\* the plane moves toward it by the fraction POSITION_LERP of what remains,
\* whatever the delta, a delta of zero included, and its distance to the
\* sampled position strictly decreases until the step rounds to nothing.
C25_PositionClosesInByFixedFraction ==
    [][(/\ FrameStep
        /\ Completed /\ wrote' = AllWritten
        /\ locals'.currentPosition = locals.currentPosition)
         => /\ planePosition' =
                   Vec(planePosition.x
                         + RDiv((locals.currentPosition.x - planePosition.x)
                                   * POSITION_LERP, SCALE),
                       planePosition.y
                         + RDiv((locals.currentPosition.y - planePosition.y)
                                   * POSITION_LERP, SCALE),
                       planePosition.z
                         + RDiv((locals.currentPosition.z - planePosition.z)
                                   * POSITION_LERP, SCALE))
            /\ \/ DistanceSq(planePosition', locals.currentPosition)
                     < DistanceSq(planePosition, locals.currentPosition)
               \/ WithinRounding(planePosition, locals.currentPosition)]_vars
\* A frame with a delta of zero after a frame that sampled a position away
\* from the plane: the plane has moved although no time has passed.
C25_Witness ==
    /\ Completed
    /\ frameCount >= 2
    /\ delta = 0
    /\ ~WithinRounding(planePosition, locals.currentPosition)
    /\ lastLookAt # locals.currentPosition

\* C26: a frame callback invoked while the group or the camera is not
\* mounted changes nothing: progress, angles, last direction, orientation,
\* position, camera state and frame counter stay as they are, and no debug
\* block is written.
C26_UnmountedFrameIsNoOp ==
    [][(calls' = calls + 1 /\ (~planeGroup \/ ~cameraRef))
         => /\ smoothScroll' = smoothScroll
            /\ bankAngle' = bankAngle
            /\ pitchAngle' = pitchAngle
            /\ yawAngle' = yawAngle
            /\ lastDirection' = lastDirection
            /\ currentRotation' = currentRotation
            /\ planePosition' = planePosition
            /\ planeQuaternion' = planeQuaternion
            /\ lastPosition' = lastPosition
            /\ lastLookAt' = lastLookAt
            /\ cameraPosition' = cameraPosition
            /\ frameCount' = frameCount
            /\ ~logged'
            /\ ~threw']_vars
\* A callback that came before the refs were attached, with a delta and a
\* scroll offset that would have moved the flight, debugging enabled and the
\* frame counter at a multiple of LOG_INTERVAL.
C26_Witness ==
    /\ calls >= 1
    /\ ~planeGroup
    /\ delta > 0
    /\ scrollOffset > 0
    /\ debugEnabled
    /\ frameCount % LOG_INTERVAL = 0
    /\ wrote = {}

\* Yaw angles a run could hold in place of its own.
YawAngles == {-(SCALE \div 2), SCALE \div 2}
\* The flight state f with the yaw angle y in place of its own.
WithYaw(f, y) == <<f[1], [f[2] EXCEPT ![3] = y]>>
\* The flight state a frame that runs to its end leaves with delta d and
\* progress ss, from the refs before it with the yaw angle y among them.
FlightWithYaw(d, ss, y) ==
    FlightFrom(d, Locals(linePoints, ss, lastDirection, bankAngle, pitchAngle,
                         y, currentRotation))
C28_LookupsInRange ==
    /\ LOOK_AHEAD >= 1
    /\ \A i \in 0 .. (Length - 2) :
          /\ NextPointIndex(i) = i + 1
          /\ i < NextPointIndex(i)
          /\ NextPointIndex(i) <= FuturePointIndex(i)
          /\ FuturePointIndex(i) <= Length - 1
          /\ FuturePointIndex(i) =
                 (IF i + LOOK_AHEAD < Length - 1 THEN i + LOOK_AHEAD
                  ELSE Length - 1)
          /\ NextPointIndex(i) \in DOMAIN linePoints
          /\ FuturePointIndex(i) \in DOMAIN linePoints
    /\ Completed =>
          /\ locals.curPointIndex \in 0 .. (Length - 2)
          /\ locals.nextPoint = linePoints[locals.curPointIndex + 1]
          /\ locals.futurePoint =
                 linePoints[IF locals.curPointIndex + LOOK_AHEAD < Length - 1
                            THEN locals.curPointIndex + LOOK_AHEAD
                            ELSE Length - 1]
\* A frame near the end of a path long enough to look LOOK_AHEAD samples
\* ahead from its start: the look-ahead sample is the last sample.
C28_Witness ==
    /\ Completed
    /\ LOOK_AHEAD < Length - 1
    /\ locals.curPointIndex + LOOK_AHEAD > Length - 1
    /\ locals.curPointIndex + 1 < Length - 1
    /\ locals.futurePoint = linePoints[Length - 1]
    /\ locals.futurePoint # locals.nextPoint

\* C29: the key handler is active exactly while Scene is mounted: a keydown
\* of "d" while it is mounted flips DEBUG.ENABLED, any other key leaves it,
\* a keydown after the unmount leaves it, and no other step changes it; the
\* listener is on window exactly while Scene is mounted.
C29_HandlerActiveWhileMounted ==
    [][/\ listening = sceneMounted
       /\ listening' = sceneMounted'
       /\ pressed' # pressed
            => debugEnabled' =
                  (IF sceneMounted /\ pressed'[Len(pressed')] = "d"
                   THEN ~debugEnabled ELSE debugEnabled)
       /\ pressed' = pressed => debugEnabled' = debugEnabled]_vars
\* Of three presses of "d" one came after the unmount: DEBUG.ENABLED is as
\* at the start, restored by the two presses that counted.
C29_Witness ==
    /\ ~sceneMounted
    /\ pressed = <<"d", "d", "d">>
    /\ debugEnabled

\* The state refs of Experience, lines 387-404.
Refs == <<smoothScroll, lastPosition, lastLookAt, currentRotation, bankAngle,
          pitchAngle, yawAngle, frameCount, axes, lastDirection>>
\* C19: a step that is no frame callback (a key press, a re-render, the refs
\* being attached) leaves progress, angles, last direction, orientation,
\* camera state and frame counter as they are, and the frame counter never
\* goes back.
C19_OnlyFramesChangeFlight ==
    [][/\ calls' = calls => Refs' = Refs
       /\ frameCount' >= frameCount]_vars
\* A key press and a re-render have happened between frames of a flight
\* under way.
C19_Witness ==
    /\ renders > 0
    /\ ~debugEnabled
    /\ frameCount = MaxEventFrames
    /\ Completed
    /\ smoothScroll # 0
    /\ bankAngle # 0

=============================================================================
